---- MODULE Spec2Model ----
(***************************************************************************)
(* The file-permission atom of comtrya (src/atoms/file/chmod.rs): a        *)
(* FilePermissions {path, mode} with plan / execute / revert and a Display *)
(* implementation, in its two build variants (cfg(unix), cfg(not(unix))),  *)
(* run against a small filesystem that an external actor may also change.  *)
(***************************************************************************)
EXTENDS Integers, Sequences, FiniteSets, TLC

(* ------------------------------ bounds --------------------------------- *)

\* How many of the mode values of ModeList an atom may be constructed with.
NumModes == 3

(* --------------------------- program constants ------------------------- *)

\* 0o100000, the literal added to self.mode in plan().
S_IFREG == 32768

\* `mode: u32`: a u32 is kept as two 16-bit halves [hi, lo], so that its
\* arithmetic is exactly modulo 2^32 (= Half * Half).
Half == 65536

(* ------------------------------ the world ------------------------------ *)

\* A path with a UTF-8 name and one whose name is not valid UTF-8.
Utf8Path == "/tmp/644"
NonUtf8Path == "/tmp/\\xFF"
Paths == {Utf8Path, NonUtf8Path}

\* Path::to_str(): Some(text) for a UTF-8 name, None otherwise.
to_str(p) == IF p = NonUtf8Path THEN "None" ELSE p

u32(hi, lo) == [hi |-> hi, lo |-> lo]

\* 0o644, 0o640, u32::MAX, 0o7777, 0, 0o755, 0o100644
ModeList == <<u32(0, 420), u32(0, 416), u32(65535, 65535), u32(0, 4095),
              u32(0, 0), u32(0, 493), u32(0, 33188)>>
ModeAt(i) == IF i <= Len(ModeList) THEN ModeList[i] ELSE u32(0, i)
Modes == {ModeAt(i) : i \in 1..NumModes}

\* A mode that holds permission bits only (0..0o7777).
IsPermMode(m) == m.hi = 0 /\ m.lo <= 4095

\* The permission bits the kernel keeps of a chmod argument (S_IALLUGO).
PermBits(m) == m.lo % 4096
Perms == {PermBits(m) : m \in Modes}

FileTypes == {"file", "dir"}

\* The S_IFMT part of st_mode for each file type (regular file, directory).
TypeBits(ftype) == IF ftype = "file" THEN 32768 ELSE 16384

\* access: "rw" the caller may stat and chmod; "ro" may stat, chmod is EPERM;
\* "none" the path cannot be traversed, stat and chmod are EACCES.
Access == {"rw", "ro"}

\* A path that does not exist, and one the caller cannot reach (its type and
\* bits are then out of the program's sight and reach: one entry stands for all).
Missing == [exists |-> FALSE, ftype |-> "file", perm |-> 0, access |-> "none"]
Denied == [exists |-> TRUE, ftype |-> "file", perm |-> 0, access |-> "none"]
Entries == {Missing, Denied} \cup
           [exists : {TRUE}, ftype : FileTypes, perm : Perms, access : Access]

\* A captured pre-execute value, or none.
NoPrior == [captured |-> FALSE, perm |-> 0]
Captured(perm) == [captured |-> TRUE, perm |-> perm]

VARIABLES
    platform,        \* "unix" or "other": which impl Atom block is compiled
    tracingEnabled,  \* whether an ERROR-level tracing subscriber is installed
    overflowChecks,  \* whether the build panics on integer overflow (debug)
    fs,              \* the filesystem: path -> entry
    atom,            \* the FilePermissions value: [path, mode]
    prior,           \* the permission bits captured before the last execute
    preExec,         \* history: the on-disk bits just before the execute that
                     \*   was the last step, or that a revert directly followed
    lastOp,          \* history: the last operation performed
    result,          \* history: what it returned
    prevOp,          \* history: for a plan or a revert, the plan or execute
                     \*   that came right before it; for an execute, the
                     \*   execute right before it ("none" otherwise)
    prevResult,      \* history: what that one returned
    syscalls,        \* history: the filesystem calls the last operation made
    pass,            \* history: where a convergence pass stands: "drift" a
                     \*   plan has reported drift, "raced" the external actor
                     \*   has acted since, "...-executed" the execute has run
    output           \* the text the last Display produced

vars == <<platform, tracingEnabled, overflowChecks, fs, atom, prior, preExec,
          lastOp, result, prevOp, prevResult, syscalls, pass, output>>

cfgVars == <<platform, tracingEnabled, overflowChecks>>

(* --------------------------- std / libc model -------------------------- *)

\* std::fs::metadata(path): Err when the path is missing or not traversable,
\* else the st_mode (type bits + permission bits).
metadata(f, p) ==
    IF f[p].exists /\ f[p].access # "none"
    THEN [ok |-> TRUE, st_mode |-> u32(0, TypeBits(f[p].ftype) + f[p].perm)]
    ELSE [ok |-> FALSE, st_mode |-> u32(0, 0)]

\* Permissions::from_mode(m) wraps the raw value; .mode() hands it back.
from_mode(m) == [mode |-> m]
mode_of(perm) == perm.mode

\* std::fs::set_permissions(path, perm): chmod(2).
set_permissions(f, p, perm) ==
    IF f[p].exists /\ f[p].access = "rw"
    THEN [ok |-> TRUE,
          fs |-> [f EXCEPT ![p].perm = PermBits(mode_of(perm))]]
    ELSE [ok |-> FALSE, fs |-> f]

(* ------------------------------- the atom ------------------------------ *)

\* 0o100000 + self.mode on u32: aborts in a build with overflow checks,
\* wraps modulo 2^32 otherwise.
PlanSum(a, checks) ==
    LET lo == S_IFREG + a.mode.lo
        hi == a.mode.hi + (lo \div Half)
    IN  [overflow |-> hi >= Half,
         panic |-> hi >= Half /\ checks,
         value |-> u32(hi % Half, lo % Half)]

\* Mutant: the comparison looks at the owner and group bits only (a 0o7770
\* mask), so that a difference in the bits for others goes unseen.
PlanOutcome_MaskOther(f, a, tracing, checks) ==
    LET md == metadata(f, a.path)
        drop(m) == u32(m.hi, m.lo - (m.lo % 8))
    IN
    IF ~md.ok
    THEN (IF tracing /\ to_str(a.path) = "None" THEN "panic" ELSE "false")
    ELSE IF PlanSum(a, checks).panic THEN "panic"
    ELSE IF drop(mode_of(from_mode(PlanSum(a, checks).value))) # drop(md.st_mode)
         THEN "true" ELSE "false"

\* The value plan() yields: "true", "false" or "panic".
PlanOutcome(f, a, tracing, checks) ==
    LET md == metadata(f, a.path) IN
    IF ~md.ok
    THEN (IF tracing /\ to_str(a.path) = "None" THEN "panic" ELSE "false")
    ELSE IF PlanSum(a, checks).panic THEN "panic"
    ELSE IF mode_of(from_mode(PlanSum(a, checks).value)) # md.st_mode
         THEN "true" ELSE "false"

Running == result # "panic"

\* Whether the step `op` directly follows a step the history keeps for it: a
\* plan or an execute before a plan or a revert, an execute before an execute.
Follows(op) ==
    \/ op \in {"plan", "revert"} /\ lastOp \in {"plan", "execute"}
    \/ op = "execute" /\ lastOp = "execute"

\* Where the convergence pass stands after the step `op` that returned `res`.
PassAfter(op, res) ==
    IF op = "plan" THEN (IF res = "true" THEN "drift" ELSE "none")
    ELSE IF op = "external"
         THEN (IF pass \in {"drift", "raced"} THEN "raced" ELSE "none")
    ELSE IF op = "execute"
         THEN (IF pass = "drift" THEN "drift-executed"
               ELSE IF pass = "raced" THEN "raced-executed" ELSE "none")
    ELSE "none"

Step(op, res, calls) ==
    /\ lastOp' = op
    /\ result' = res
    /\ prevOp' = IF Follows(op) THEN lastOp ELSE "none"
    /\ prevResult' = IF Follows(op) THEN result ELSE "none"
    /\ syscalls' = calls
    /\ pass' = PassAfter(op, res)

Init ==
    /\ platform \in {"unix", "other"}
    /\ tracingEnabled \in BOOLEAN
    /\ overflowChecks \in BOOLEAN
    /\ fs \in [Paths -> {Missing,
                         [exists |-> TRUE, ftype |-> "file",
                          perm |-> PermBits(ModeAt(1)), access |-> "rw"]}]
    /\ atom \in [path : Paths, mode : Modes]
    /\ prior = NoPrior
    /\ preExec = NoPrior
    /\ lastOp = "new"
    /\ result = "none"
    /\ prevOp = "none"
    /\ prevResult = "none"
    /\ syscalls = <<>>
    /\ pass = "none"
    /\ output = <<>>

\* The orchestrator builds another atom.
Construct ==
    /\ Running
    /\ \E p \in Paths, m \in Modes : atom' = [path |-> p, mode |-> m]
    /\ prior' = NoPrior
    /\ preExec' = NoPrior
    /\ Step("new", "none", <<>>)
    /\ output' = <<>>
    /\ UNCHANGED <<cfgVars, fs>>

\* Mutant: plan() applies the change itself when it finds drift.
PlanUnix_Apply ==
    /\ Running
    /\ platform = "unix"
    /\ LET res == PlanOutcome(fs, atom, tracingEnabled, overflowChecks) IN
         /\ Step("plan", res, <<"stat">>)
         /\ fs' = IF res = "true"
                  THEN set_permissions(fs, atom.path, from_mode(atom.mode)).fs
                  ELSE fs
    /\ preExec' = NoPrior
    /\ output' = <<>>
    /\ UNCHANGED <<cfgVars, atom, prior>>

\* Mutant: plan() inspects the path by opening it with create(true), which
\* brings a missing path into existence.
PlanUnix_Create ==
    /\ Running
    /\ platform = "unix"
    /\ Step("plan", PlanOutcome(fs, atom, tracingEnabled, overflowChecks),
            <<"open", "stat">>)
    /\ fs' = IF fs[atom.path].exists THEN fs
             ELSE [fs EXCEPT ![atom.path] =
                     [exists |-> TRUE, ftype |-> "file",
                      perm |-> PermBits(ModeAt(1)), access |-> "rw"]]
    /\ preExec' = NoPrior
    /\ output' = <<>>
    /\ UNCHANGED <<cfgVars, atom, prior>>

PlanUnix ==
    /\ Running
    /\ platform = "unix"
    /\ Step("plan", PlanOutcome(fs, atom, tracingEnabled, overflowChecks),
            <<"stat">>)
    /\ preExec' = NoPrior
    /\ output' = <<>>
    /\ UNCHANGED <<cfgVars, fs, atom, prior>>

\* Mutant: execute() drops the result of set_permissions (no `?`).
ExecuteUnix_IgnoreError ==
    /\ Running
    /\ platform = "unix"
    /\ fs' = set_permissions(fs, atom.path, from_mode(atom.mode)).fs
    /\ Step("execute", "ok", <<"chmod">>)
    /\ prior' = NoPrior
    /\ preExec' = IF metadata(fs, atom.path).ok
                  THEN Captured(fs[atom.path].perm) ELSE NoPrior
    /\ output' = <<>>
    /\ UNCHANGED <<cfgVars, atom>>

\* Mutant: execute() reports an error when the bits already equal the mode.
ExecuteUnix_RefuseNoop ==
    /\ Running
    /\ platform = "unix"
    /\ LET r == set_permissions(fs, atom.path, from_mode(atom.mode)) IN
         /\ fs' = r.fs
         /\ Step("execute",
                 IF r.ok /\ r.fs # fs THEN "ok" ELSE "err", <<"stat", "chmod">>)
    /\ prior' = NoPrior
    /\ preExec' = IF metadata(fs, atom.path).ok
                  THEN Captured(fs[atom.path].perm) ELSE NoPrior
    /\ output' = <<>>
    /\ UNCHANGED <<cfgVars, atom>>

\* Mutant: execute() opens the path with create(true) before the chmod, so a
\* path that was deleted comes back and the call succeeds.
ExecuteUnix_CreateMissing ==
    /\ Running
    /\ platform = "unix"
    /\ LET made == IF fs[atom.path].exists THEN fs
                   ELSE [fs EXCEPT ![atom.path] =
                           [exists |-> TRUE, ftype |-> "file",
                            perm |-> PermBits(ModeAt(1)), access |-> "rw"]]
           r == set_permissions(made, atom.path, from_mode(atom.mode)) IN
         /\ fs' = r.fs
         /\ Step("execute", IF r.ok THEN "ok" ELSE "err", <<"open", "chmod">>)
    /\ prior' = NoPrior
    /\ preExec' = IF metadata(fs, atom.path).ok
                  THEN Captured(fs[atom.path].perm) ELSE NoPrior
    /\ output' = <<>>
    /\ UNCHANGED <<cfgVars, atom>>

\* Mutant: execute() passes the mode without its bits for others.
ExecuteUnix_DropOther ==
    /\ Running
    /\ platform = "unix"
    /\ LET r == set_permissions(fs, atom.path,
                    from_mode(u32(atom.mode.hi,
                                  atom.mode.lo - (atom.mode.lo % 8)))) IN
         /\ fs' = r.fs
         /\ Step("execute", IF r.ok THEN "ok" ELSE "err", <<"chmod">>)
    /\ prior' = NoPrior
    /\ preExec' = IF metadata(fs, atom.path).ok
                  THEN Captured(fs[atom.path].perm) ELSE NoPrior
    /\ output' = <<>>
    /\ UNCHANGED <<cfgVars, atom>>

\* cfg(unix) execute(): set_permissions(path, from_mode(mode))?; Ok(()).
\* The atom captures nothing before it changes the bits.
ExecuteUnix ==
    /\ Running
    /\ platform = "unix"
    /\ LET r == set_permissions(fs, atom.path, from_mode(atom.mode)) IN
         /\ fs' = r.fs
         /\ Step("execute", IF r.ok THEN "ok" ELSE "err", <<"chmod">>)
    /\ prior' = NoPrior
    /\ preExec' = IF metadata(fs, atom.path).ok
                  THEN Captured(fs[atom.path].perm) ELSE NoPrior
    /\ output' = <<>>
    /\ UNCHANGED <<cfgVars, atom>>

\* The caller reads the path's permission bits and then calls execute(), so
\* that a later revert() has the value to restore (spec 4.4).
CaptureAndExecute ==
    /\ Running
    /\ platform = "unix"
    /\ metadata(fs, atom.path).ok
    /\ LET r == set_permissions(fs, atom.path, from_mode(atom.mode)) IN
         /\ fs' = r.fs
         /\ Step("execute", IF r.ok THEN "ok" ELSE "err", <<"stat", "chmod">>)
    /\ prior' = Captured(fs[atom.path].perm)
    /\ preExec' = Captured(fs[atom.path].perm)
    /\ output' = <<>>
    /\ UNCHANGED <<cfgVars, atom>>

\* Mutant: revert() with nothing captured succeeds and does nothing.
RevertOutcome_Silent(f, a, pr) ==
    IF ~pr.captured
    THEN [ok |-> TRUE, fs |-> f, calls |-> <<>>]
    ELSE LET r == set_permissions(f, a.path, from_mode(u32(0, pr.perm))) IN
         [ok |-> r.ok, fs |-> r.fs, calls |-> <<"chmod">>]

\* Mutant: revert() applies the atom's mode again instead of the captured bits.
RevertOutcome_Reapply(f, a, pr) ==
    IF ~pr.captured
    THEN [ok |-> FALSE, fs |-> f, calls |-> <<>>]
    ELSE LET r == set_permissions(f, a.path, from_mode(a.mode)) IN
         [ok |-> r.ok, fs |-> r.fs, calls |-> <<"chmod">>]

\* cfg(unix) revert(), as spec 4.4 describes it: restore the captured bits,
\* and fail closed when none were captured.
RevertOutcome(f, a, pr) ==
    IF ~pr.captured
    THEN [ok |-> FALSE, fs |-> f, calls |-> <<>>]
    ELSE LET r == set_permissions(f, a.path, from_mode(u32(0, pr.perm))) IN
         [ok |-> r.ok, fs |-> r.fs, calls |-> <<"chmod">>]

RevertUnix ==
    /\ Running
    /\ platform = "unix"
    /\ LET r == RevertOutcome(fs, atom, prior) IN
         /\ fs' = r.fs
         /\ Step("revert", IF r.ok THEN "ok" ELSE "err", r.calls)
    /\ output' = <<>>
    /\ UNCHANGED <<cfgVars, atom, prior, preExec>>

\* Mutant: the inert plan() runs the POSIX body.
PlanInert_Stat ==
    /\ Running
    /\ platform = "other"
    /\ Step("plan", PlanOutcome(fs, atom, tracingEnabled, overflowChecks),
            <<"stat">>)
    /\ preExec' = NoPrior
    /\ output' = <<>>
    /\ UNCHANGED <<cfgVars, fs, atom, prior>>

\* cfg(not(unix)) plan(): false.
PlanInert ==
    /\ Running
    /\ platform = "other"
    /\ Step("plan", "false", <<>>)
    /\ preExec' = NoPrior
    /\ output' = <<>>
    /\ UNCHANGED <<cfgVars, fs, atom, prior>>

\* cfg(not(unix)) execute(): Ok(()).
ExecuteInert ==
    /\ Running
    /\ platform = "other"
    /\ Step("execute", "ok", <<>>)
    /\ output' = <<>>
    /\ UNCHANGED <<cfgVars, fs, atom, prior, preExec>>

\* cfg(not(unix)) revert(): Ok(()).
RevertInert ==
    /\ Running
    /\ platform = "other"
    /\ Step("revert", "ok", <<>>)
    /\ output' = <<>>
    /\ UNCHANGED <<cfgVars, fs, atom, prior, preExec>>

\* A u32 divided by ten: [q, r], by long division on the two halves.
DivTen(m) ==
    LET rest == (m.hi % 10) * Half + m.lo
    IN  [q |-> u32(m.hi \div 10, rest \div 10), r |-> rest % 10]

\* `{}` of self.mode: its decimal digits, most significant first.
RECURSIVE ModeText(_)
ModeText(m) ==
    IF m.hi = 0 /\ m.lo < 10 THEN <<m.lo>>
    ELSE Append(ModeText(DivTen(m).q), DivTen(m).r)

\* Display::fmt: "The permissions on {} need to be set to {}", with
\* path.to_str().unwrap() and the mode in decimal.
DisplayOutcome(a) ==
    IF to_str(a.path) = "None"
    THEN [res |-> "panic", text |-> <<>>]
    ELSE [res |-> "ok",
          text |-> <<"The permissions on ", to_str(a.path),
                     " need to be set to ", ModeText(a.mode)>>]

Display ==
    /\ Running
    /\ Step("display", DisplayOutcome(atom).res, <<>>)
    /\ preExec' = NoPrior
    /\ output' = DisplayOutcome(atom).text
    /\ UNCHANGED <<cfgVars, fs, atom, prior>>

\* An external actor changes a path's permission bits, ...
ExternalChmod ==
    /\ Running
    /\ \E p \in Paths, b \in Perms :
         /\ fs[p].exists
         /\ fs[p].access # "none"
         /\ fs[p].perm # b
         /\ fs' = [fs EXCEPT ![p].perm = b]
    /\ Step("external", "none", <<>>)
    /\ preExec' = NoPrior
    /\ output' = <<>>
    /\ UNCHANGED <<cfgVars, atom, prior>>

\* ... deletes a path, ...
ExternalDelete ==
    /\ Running
    /\ \E p \in Paths :
         /\ fs[p].exists
         /\ fs' = [fs EXCEPT ![p] = Missing]
    /\ Step("external", "none", <<>>)
    /\ preExec' = NoPrior
    /\ output' = <<>>
    /\ UNCHANGED <<cfgVars, atom, prior>>

\* ... or creates one, of any type and accessibility.
ExternalCreate ==
    /\ Running
    /\ \E p \in Paths, e \in Entries :
         /\ ~fs[p].exists
         /\ e.exists
         /\ fs' = [fs EXCEPT ![p] = e]
    /\ Step("external", "none", <<>>)
    /\ preExec' = NoPrior
    /\ output' = <<>>
    /\ UNCHANGED <<cfgVars, atom, prior>>

Next ==
    \/ Construct
    \/ PlanUnix
    \/ ExecuteUnix
    \/ CaptureAndExecute
    \/ RevertUnix
    \/ PlanInert
    \/ ExecuteInert
    \/ RevertInert
    \/ Display
    \/ ExternalChmod
    \/ ExternalDelete
    \/ ExternalCreate

Spec == Init /\ [][Next]_vars
(* ------------------------------- claims ------------------------------- *)

\* What the atom's path looks like on disk.
Target == fs[atom.path]
Inspectable == metadata(fs, atom.path).ok
Modifiable == Target.exists /\ Target.access = "rw"

\* C1 (as claimed): for every existing target path, whatever its file type,
\* and every mode in 0..0o7777, a plan() that directly follows a successful
\* execute() on the same atom returns false.
C1_Convergence ==
    (/\ lastOp = "plan"
     /\ prevOp = "execute"
     /\ prevResult = "ok"
     /\ IsPermMode(atom.mode))
    => result = "false"

\* C2 (as claimed): when the path is inspectable and its on-disk permission
\* bits equal the atom's mode, plan() returns false, whatever the file type.
C2_NoDriftWhenConverged ==
    (/\ lastOp = "plan"
     /\ Inspectable
     /\ IsPermMode(atom.mode)
     /\ Target.perm = atom.mode.lo)
    => result = "false"

\* C3: on the POSIX variant, when the path is inspectable and its on-disk
\* permission bits differ from the atom's mode (in 0..0o7777), plan() returns
\* true.
C3_DriftDetected ==
    (/\ lastOp = "plan"
     /\ platform = "unix"
     /\ Inspectable
     /\ IsPermMode(atom.mode)
     /\ Target.perm # atom.mode.lo)
    => result = "true"

\* C3 witness: a file left at 0o640 by an execute, planned with mode 0o644.
C3_Witness ==
    /\ lastOp = "plan"
    /\ platform = "unix"
    /\ result = "true"
    /\ Target.exists /\ Target.ftype = "file" /\ Target.access = "rw"
    /\ Target.perm = 416
    /\ atom.mode = u32(0, 420)

\* C4 (as claimed): whenever the metadata query fails, plan() returns false as
\* an ordinary boolean.
C4_FailSafeInspection ==
    (/\ lastOp = "plan"
     /\ platform = "unix"
     /\ ~Inspectable)
    => result = "false"

\* C5 (as claimed): an execute() on a path that does not exist or cannot be
\* modified returns an error and leaves the filesystem as it was.
C5_AsClaimed ==
    [][(/\ lastOp' = "execute"
        /\ ~Modifiable)
       => (result' = "err" /\ fs' = fs)]_vars

\* C5 (amended): on the POSIX variant an execute() on a path that does not exist or
\* cannot be modified returns an error and leaves the filesystem as it was.
C5_ExecuteFailurePropagates ==
    [][(/\ lastOp' = "execute"
        /\ platform = "unix"
        /\ ~Modifiable)
       => (result' = "err" /\ fs' = fs)]_vars

\* C5 witness: an execute on a missing path has returned an error.
C5_Witness ==
    /\ lastOp = "execute"
    /\ platform = "unix"
    /\ ~Target.exists
    /\ result = "err"

\* C6: a plan() step changes neither the filesystem nor the atom, also when
\* the metadata query fails.
C6_PlanIsPure ==
    [][lastOp' = "plan" => (fs' = fs /\ atom' = atom)]_vars

\* C6 witness: a plan on a path whose metadata cannot be read has returned.
C6_Witness ==
    /\ lastOp = "plan"
    /\ platform = "unix"
    /\ ~Target.exists
    /\ result = "false"

\* C7: a plan() that directly follows a plan() returns what that one returned.
C7_PlanIdempotent ==
    (lastOp = "plan" /\ prevOp = "plan") => result = prevResult

\* C7 witness: two plans in a row on a drifted path, both reporting drift.
C7_Witness ==
    /\ lastOp = "plan"
    /\ prevOp = "plan"
    /\ platform = "unix"
    /\ result = "true"
    /\ prevResult = "true"

C10_InertVariant ==
    [][(/\ platform = "other"
        /\ lastOp' \in {"plan", "execute", "revert"})
       => (/\ result' = (IF lastOp' = "plan" THEN "false" ELSE "ok")
           /\ fs' = fs
           /\ syscalls' = <<>>)]_vars

\* C10 witness: an inert plan, right after an inert execute, on a path whose
\* bits differ from the atom's mode.
C10_Witness ==
    /\ platform = "other"
    /\ lastOp = "plan"
    /\ prevOp = "execute"
    /\ result = "false"
    /\ Inspectable
    /\ Target.perm # PermBits(atom.mode)

\* C11 (as claimed): for every path, also one whose name is not valid UTF-8,
\* and every mode in 0..0o7777, plan(), execute() and the display formatting
\* each return normally: none of them aborts.
C11_NoPanics ==
    (/\ lastOp \in {"plan", "execute", "display"}
     /\ IsPermMode(atom.mode))
    => result # "panic"

\* C12: on the POSIX variant an execute() on an existing, modifiable path with
\* a mode in 0..0o7777 returns Ok and leaves the path's permission bits equal
\* to the mode, its existence, file type and accessibility and every other
\* path as they were; when the bits already equalled the mode, the whole
\* filesystem is as it was.
C12_ExecuteEffect ==
    [][(/\ lastOp' = "execute"
        /\ platform = "unix"
        /\ Modifiable
        /\ IsPermMode(atom.mode))
       => (/\ result' = "ok"
           /\ fs'[atom.path] = [fs[atom.path] EXCEPT !.perm = atom.mode.lo]
           /\ \A q \in Paths \ {atom.path} : fs'[q] = fs[q]
           /\ (Target.perm = atom.mode.lo => fs' = fs))]_vars

\* C12 witness: an execute has changed the bits of a directory to the mode.
C12_Witness ==
    /\ lastOp = "execute"
    /\ platform = "unix"
    /\ result = "ok"
    /\ IsPermMode(atom.mode)
    /\ Target.exists /\ Target.ftype = "dir"
    /\ Target.perm = atom.mode.lo
    /\ preExec.captured
    /\ preExec.perm # atom.mode.lo

\* C13: an execute() that directly follows a successful execute() on the same
\* atom succeeds too and leaves the filesystem as the first one left it; no
\* plan() or execute() step changes the atom's path or mode.
C13_ExecuteRetrySafe ==
    [][/\ (lastOp' \in {"plan", "execute"} => atom' = atom)
       /\ ((/\ lastOp = "execute"
            /\ result = "ok"
            /\ lastOp' = "execute")
           => (result' = "ok" /\ fs' = fs))]_vars

\* C13 witness: two successful executes in a row on the POSIX variant, the
\* first of which had changed the bits.
C13_Witness ==
    /\ lastOp = "execute"
    /\ prevOp = "execute"
    /\ prevResult = "ok"
    /\ result = "ok"
    /\ platform = "unix"
    /\ Target.perm = PermBits(atom.mode)
    /\ Target.perm # PermBits(ModeAt(1))

\* C14: in a convergence pass (a plan() that reported drift, then steps of the
\* external actor, then execute()), the execute() returns Ok only if the path
\* existed at that step and the step left its permission bits equal to the
\* mode; if the path is gone by then, the execute() returns an error.
C14_RaceSurfaced ==
    [][(/\ lastOp' = "execute"
        /\ pass \in {"drift", "raced"})
       => (/\ (result' = "ok" =>
                 (/\ Target.exists
                  /\ fs'[atom.path].exists
                  /\ fs'[atom.path].perm = PermBits(atom.mode)))
           /\ (~Target.exists => result' = "err"))]_vars

\* C14 witness: the path was deleted after plan() reported drift, and the
\* execute() of that pass has returned an error.
C14_Witness ==
    /\ lastOp = "execute"
    /\ pass = "raced-executed"
    /\ ~Target.exists
    /\ result = "err"

\* C15 (as claimed): whenever plan() inspects the path and computes
\* 0o100000 + mode, the sum is within the u32 range for the mode the atom
\* holds: it neither wraps around modulo 2^32 nor aborts.
C15_SumInRange ==
    (/\ lastOp = "plan"
     /\ platform = "unix"
     /\ Inspectable)
    => (/\ ~PlanSum(atom, overflowChecks).overflow
        /\ result # "panic")
====
